---- MODULE Spec2Model ----
(***************************************************************************)
(* Model of the gRPC Fibonacci demo (posts/2022-04-16/source-code).        *)
(*                                                                         *)
(*   app.py     generate_fibonacci, FibonacciService.GetSequence,          *)
(*              FibonacciService.StreamSequence, the server bootstrap      *)
(*              (ThreadPoolExecutor(max_workers=10), port 5001)            *)
(*   client.py  the client script (channel to localhost:50051, one         *)
(*              StreamSequence call, then one GetSequence call)            *)
(*                                                                         *)
(* A call is a record in `calls` from the moment the server accepts it     *)
(* until its handler returns; a generator frame is part of the call that   *)
(* created it.  One step of a handler is one resumption of its generator.  *)
(***************************************************************************)
EXTENDS Integers, Sequences, FiniteSets

VARIABLES
    calls,            \* in-flight calls, in arrival order
    submitted,        \* number of calls the server has accepted so far
    history,          \* results of the calls that have completed
    clientPc,         \* position of client.py
    printed,          \* stream messages printed by client.py (line 13)
    printedResponse,  \* responses printed by client.py (line 15)
    portmap           \* port forwardings of the host the client runs on

vars == <<calls, submitted, history, clientPc, printed, printedResponse, portmap>>

----------------------------------------------------------------------------
(* Bounds of the model *)

MaxCalls == 2       \* calls accepted in one behaviour of Spec
MaxCount == 5       \* largest count requested in Spec
NegCount == 1       \* counts down to -NegCount are requested in Spec
PoolCalls == 11     \* calls accepted in one behaviour of SpecPool
PoolCount == 0      \* the count of every call of SpecPool

(* Program constants *)

max_workers == 10
ServerPort == 5001
ClientPort == 50051
ClientCount == 20

Kinds == {"Get", "Stream"}
Counts == (0 - NegCount)..MaxCount

Max(x, y) == IF x >= y THEN x ELSE y

----------------------------------------------------------------------------
(* The mathematical Fibonacci sequence the specification refers to *)

RECURSIVE Fib(_)
Fib(n) == IF n <= 0 THEN 0 ELSE IF n = 1 THEN 1 ELSE Fib(n - 1) + Fib(n - 2)

FibPrefix(n) == [k \in 1..n |-> Fib(k - 1)]

----------------------------------------------------------------------------
(* generate_fibonacci as a coroutine: a frame and its resumption *)

\* the locals of a call that starts from what earlier calls left behind
GenLocals_carried ==
    [a |-> 0, b |-> 1, current_count |-> IF history = {} THEN 0 ELSE 1]

\* a, b = 0, 1 ; current_count = 0
GenLocals == [a |-> 0, b |-> 1, current_count |-> 0]

\* a generator object whose body has not run yet
NewGenerator == [pc |-> "created", a |-> 0, b |-> 0, current_count |-> 0]

GenBreak_off_by_one(current_count, count) == current_count > count

\* if current_count >= count: break
GenBreak(current_count, count) == current_count >= count

\* one next() on the frame g: runs to the next yield or to the end
Resume(g, count) ==
    IF g.pc = "created"
    THEN [pc |-> "suspended", a |-> GenLocals.a, b |-> GenLocals.b,
          current_count |-> GenLocals.current_count]
    ELSE IF GenBreak(g.current_count + 1, count)
         THEN [g EXCEPT !.pc = "returned", !.current_count = g.current_count + 1]
         ELSE [pc |-> "suspended", a |-> g.b, b |-> g.a + g.b,
               current_count |-> g.current_count + 1]

RECURSIVE Drain(_, _, _)
Drain(g, count, acc) ==
    LET h == Resume(g, count)
    IN  IF h.pc = "returned" THEN acc ELSE Drain(h, count, Append(acc, h.a))

\* list(generate_fibonacci(count)): the values one generator yields
generate_fibonacci(count) == Drain(NewGenerator, count, <<>>)

----------------------------------------------------------------------------
(* Messages *)

SequenceElement_swapped(element, count) == [element |-> count, count |-> element]

\* SequenceElement(element=element, count=i)
SequenceElement(element, count) == [element |-> element, count |-> count]

\* the loop written as enumerate(sequence, 1)
EnumerateStart_one == 0 + 1

\* enumerate(sequence) counts from 0
EnumerateStart == 0

----------------------------------------------------------------------------
(* The server *)

NewCall(kind, count) ==
    [kind |-> kind, count |-> count, pc |-> "queued", gen |-> NewGenerator,
     index |-> EnumerateStart, sequence |-> <<>>, sent |-> <<>>]

Running == {i \in 1..Len(calls) : calls[i].pc = "running"}
Queued == {i \in 1..Len(calls) : calls[i].pc = "queued"}

WorkerAvailable_unbounded == TRUE

\* the executor runs at most max_workers work items at a time
WorkerAvailable == Cardinality(Running) < max_workers

FrameOf_shared(i) == calls[CHOOSE j \in Running : \A k \in Running : j <= k].gen

\* the generator a handler resumes is the one it created
FrameOf(i) == calls[i].gen

Remove(s, i) == SubSeq(s, 1, i - 1) \o SubSeq(s, i + 1, Len(s))

Completed(c) ==
    [kind |-> c.kind, count |-> c.count, element |-> c.sequence, messages |-> c.sent]

\* the server accepts a call and hands its handler to the executor
Submit(kind, count, limit) ==
    /\ submitted < limit
    /\ calls' = Append(calls, NewCall(kind, count))
    /\ submitted' = submitted + 1
    /\ UNCHANGED <<history, clientPc, printed, printedResponse, portmap>>

\* a worker takes the oldest queued handler and runs it up to its first next()
Start ==
    /\ Queued # {}
    /\ WorkerAvailable
    /\ LET i == CHOOSE j \in Queued : \A k \in Queued : j <= k
       IN  calls' = [calls EXCEPT ![i].pc = "running", ![i].gen = NewGenerator]
    /\ UNCHANGED <<submitted, history, clientPc, printed, printedResponse, portmap>>

\* GetSequence: list() takes one more value from the generator
GetNext(i) ==
    /\ i \in Running
    /\ calls[i].kind = "Get"
    /\ LET g == Resume(FrameOf(i), calls[i].count)
       IN  /\ g.pc = "suspended"
           /\ calls' = [calls EXCEPT ![i].gen = g,
                                     ![i].sequence = Append(@, g.a)]
    /\ UNCHANGED <<submitted, history, clientPc, printed, printedResponse, portmap>>

\* GetSequence: the generator is exhausted, the response is returned
GetReturn(i) ==
    /\ i \in Running
    /\ calls[i].kind = "Get"
    /\ Resume(FrameOf(i), calls[i].count).pc = "returned"
    /\ history' = history \cup {Completed(calls[i])}
    /\ calls' = Remove(calls, i)
    /\ UNCHANGED <<submitted, clientPc, printed, printedResponse, portmap>>

\* StreamSequence: the loop takes one more value and yields one message
StreamYield(i) ==
    /\ i \in Running
    /\ calls[i].kind = "Stream"
    /\ LET g == Resume(FrameOf(i), calls[i].count)
       IN  /\ g.pc = "suspended"
           /\ calls' = [calls EXCEPT ![i].gen = g,
                                     ![i].sent = Append(@, SequenceElement(g.a, calls[i].index)),
                                     ![i].index = @ + 1]
    /\ UNCHANGED <<submitted, history, clientPc, printed, printedResponse, portmap>>

\* StreamSequence: the generator is exhausted, the stream is closed
StreamClose(i) ==
    /\ i \in Running
    /\ calls[i].kind = "Stream"
    /\ Resume(FrameOf(i), calls[i].count).pc = "returned"
    /\ history' = history \cup {Completed(calls[i])}
    /\ calls' = Remove(calls, i)
    /\ UNCHANGED <<submitted, clientPc, printed, printedResponse, portmap>>

HandleGet == \E i \in 1..Len(calls) : GetNext(i) \/ GetReturn(i)

HandleStream == \E i \in 1..Len(calls) : StreamYield(i) \/ StreamClose(i)

Handle == HandleGet \/ HandleStream

Init ==
    /\ calls = <<>>
    /\ submitted = 0
    /\ history = {}
    /\ clientPc = "start"
    /\ printed = <<>>
    /\ printedResponse = <<>>
    /\ portmap = {}

Request == \E kind \in Kinds, count \in Counts : Submit(kind, count, MaxCalls)

Next == Request \/ Start \/ Handle

Spec == Init /\ [][Next]_vars

FairSpec == Spec /\ WF_vars(Start) /\ WF_vars(Handle)

----------------------------------------------------------------------------
(* The server under more calls than it has workers *)

PoolRequest == Submit("Stream", PoolCount, PoolCalls)

NextPool == PoolRequest \/ Start \/ HandleStream

SpecPool == Init /\ [][NextPool]_vars

\* worker threads are scheduled: a free worker takes the next work item,
\* a running handler is resumed
FairSpecPool == SpecPool /\ WF_vars(Start) /\ WF_vars(HandleStream)

----------------------------------------------------------------------------
(* client.py *)

\* the address the client dials leads to the port the server listens on
Reaches == ClientPort = ServerPort \/ <<ClientPort, ServerPort>> \in portmap

ClientRequest == ClientCount

\* what the client has been sent on its stream so far, and whether it is closed
ClientStream ==
    IF \E i \in 1..Len(calls) : calls[i].kind = "Stream"
    THEN [messages |-> calls[CHOOSE i \in 1..Len(calls) : calls[i].kind = "Stream"].sent,
          closed |-> FALSE]
    ELSE IF \E h \in history : h.kind = "Stream"
         THEN [messages |-> (CHOOSE h \in history : h.kind = "Stream").messages,
               closed |-> TRUE]
         ELSE [messages |-> <<>>, closed |-> FALSE]

\* line 12: stub.StreamSequence(request)
ClientStreamCall ==
    /\ clientPc = "start"
    /\ IF Reaches
       THEN /\ calls' = Append(calls, NewCall("Stream", ClientRequest))
            /\ submitted' = submitted + 1
            /\ clientPc' = "streaming"
       ELSE /\ clientPc' = "failed"
            /\ UNCHANGED <<calls, submitted>>
    /\ UNCHANGED <<history, printed, printedResponse, portmap>>

\* lines 12-13: the loop receives the next message and prints it
ClientPrint ==
    /\ clientPc = "streaming"
    /\ Len(printed) < Len(ClientStream.messages)
    /\ printed' = Append(printed, ClientStream.messages[Len(printed) + 1])
    /\ UNCHANGED <<calls, submitted, history, clientPc, printedResponse, portmap>>

\* the loop ends with the stream; line 15: stub.GetSequence(request)
ClientGetCall ==
    /\ clientPc = "streaming"
    /\ ClientStream.closed
    /\ Len(printed) = Len(ClientStream.messages)
    /\ calls' = Append(calls, NewCall("Get", ClientRequest))
    /\ submitted' = submitted + 1
    /\ clientPc' = "waiting"
    /\ UNCHANGED <<history, printed, printedResponse, portmap>>

\* line 15: print(...) of the response, then the script ends
ClientPrintResponse ==
    /\ clientPc = "waiting"
    /\ \E h \in history :
          /\ h.kind = "Get"
          /\ printedResponse' = Append(printedResponse, [element |-> h.element])
    /\ clientPc' = "exit"
    /\ UNCHANGED <<calls, submitted, history, printed, portmap>>

Client == ClientStreamCall \/ ClientPrint \/ ClientGetCall \/ ClientPrintResponse

InitClient ==
    /\ calls = <<>>
    /\ submitted = 0
    /\ history = {}
    /\ clientPc = "start"
    /\ printed = <<>>
    /\ printedResponse = <<>>
    /\ portmap \in {{}, {<<ClientPort, ServerPort>>}}

NextClient == Client \/ Start \/ Handle

SpecClient == InitClient /\ [][NextClient]_vars

----------------------------------------------------------------------------
(* Properties *)

Values(messages) == [k \in 1..Len(messages) |-> messages[k].element]

GetResults == {h \in history : h.kind = "Get"}
StreamResults == {h \in history : h.kind = "Stream"}
StreamCalls == {i \in 1..Len(calls) : calls[i].kind = "Stream"}
GetCalls == {i \in 1..Len(calls) : calls[i].kind = "Get"}

IsPrefix(s, t) == Len(s) <= Len(t) /\ \A k \in 1..Len(s) : s[k] = t[k]

\* what a call with this count yields when it is the only call
SoloElement(count) == generate_fibonacci(count)
SoloMessages(count) ==
    [k \in 1..Len(generate_fibonacci(count)) |->
        SequenceElement(generate_fibonacci(count)[k], k - 1)]

Started == submitted - Cardinality(Queued)

\* C1: for every count N >= 0 the response of GetSequence has exactly N
\* elements, Fib(0), ..., Fib(N-1)
C1_GetSequenceIsFibPrefix ==
    \A h \in GetResults :
        h.count >= 0 =>
            /\ Len(h.element) = h.count
            /\ \A k \in 1..Len(h.element) : h.element[k] = Fib(k - 1)

\* C2: the values streamed by StreamSequence for a count are, in order, the
\* element list GetSequence returns for the same count
C2_StreamMatchesGet ==
    \A s \in StreamResults : \A g \in GetResults :
        s.count = g.count =>
            /\ Len(s.messages) = Len(g.element)
            /\ \A k \in 1..Len(g.element) : s.messages[k].element = g.element[k]

C2_Witness ==
    \E s \in StreamResults : \E g \in GetResults :
        s.count = g.count /\ s.count >= 4 /\ Len(g.element) >= 4

\* C3: with count = 0 GetSequence returns an empty list and StreamSequence
\* closes without a message
C3_ZeroCountEmpty ==
    \A h \in history : h.count = 0 => h.element = <<>> /\ h.messages = <<>>

\* C4: the k-th message of a stream (k from 0) carries count = k and
\* element = Fib(k), at every moment of the stream and at its close
C4_StreamIndexed ==
    /\ \A i \in StreamCalls : \A k \in 1..Len(calls[i].sent) :
            calls[i].sent[k] = [element |-> Fib(k - 1), count |-> k - 1]
    /\ \A h \in StreamResults : \A k \in 1..Len(h.messages) :
            h.messages[k] = [element |-> Fib(k - 1), count |-> k - 1]

C4_Witness ==
    \E h \in StreamResults :
        /\ h.count = 5
        /\ h.messages = << [element |-> 0, count |-> 0], [element |-> 1, count |-> 1],
                           [element |-> 1, count |-> 2], [element |-> 2, count |-> 3],
                           [element |-> 3, count |-> 4] >>

\* C5: a stream requested with count N >= 0 has emitted exactly N messages
\* when it closes
C5_StreamEmitsCount ==
    \A h \in StreamResults : h.count >= 0 => Len(h.messages) = h.count

\* C6: under any interleaving of concurrent calls, what a call has produced
\* so far is a prefix of, and what it returns is, the result its own count
\* determines
C6_Isolated ==
    /\ \A i \in GetCalls : IsPrefix(calls[i].sequence, SoloElement(calls[i].count))
    /\ \A i \in StreamCalls : IsPrefix(calls[i].sent, SoloMessages(calls[i].count))
    /\ \A h \in GetResults : h.element = SoloElement(h.count) /\ h.messages = <<>>
    /\ \A h \in StreamResults : h.messages = SoloMessages(h.count) /\ h.element = <<>>

C6_Witness ==
    \E i, j \in Running :
        /\ i # j
        /\ calls[i].count # calls[j].count
        /\ Len(calls[i].sequence) + Len(calls[i].sent) >= 2
        /\ Len(calls[j].sequence) + Len(calls[j].sent) >= 2

\* C7: two completed calls of the same operation with the same count have
\* the same result, whatever was called in between
C7_Repeatable ==
    \A h1, h2 \in history :
        h1.kind = h2.kind /\ h1.count = h2.count =>
            h1.element = h2.element /\ h1.messages = h2.messages

C7_Witness ==
    /\ submitted = 2
    /\ calls = <<>>
    /\ \E h \in history : history = {h} /\ h.count >= 3

\* C8: at most max_workers calls execute at any moment, a call starts only
\* when a worker is free, and the calls that are queued at any moment have
\* all started at some later moment
C8_PoolBounded ==
    /\ [](Cardinality(Running) <= max_workers)
    /\ [][Started' > Started => Cardinality(Running) < max_workers]_vars
    /\ (Queued # {}) ~> (Queued = {})

C8_Witness ==
    /\ Cardinality(Running) = max_workers
    /\ Queued # {}
    /\ \E i \in Running : calls[i].sent # <<>>

\* C9: the client terminates having printed every element of the stream
\* and then the response of GetSequence
C9_ClientPrintsBoth ==
    clientPc \in {"exit", "failed"} =>
        Len(printed) = ClientCount /\ Len(printedResponse) = 1

\* C10: for every count, also a negative one, a generator yields exactly
\* max(1, count) values and then ends; for count <= 0 GetSequence returns
\* [0] and StreamSequence emits the one message (element 0, count 0)
C10_GeneratorLength ==
    /\ \A i \in 1..Len(calls) :
          /\ Len(calls[i].sequence) + Len(calls[i].sent) <= Max(1, calls[i].count)
          /\ calls[i].gen.current_count < Max(1, calls[i].count)
    /\ \A h \in GetResults :
          /\ Len(h.element) = Max(1, h.count)
          /\ h.count <= 0 => h.element = <<0>>
    /\ \A h \in StreamResults :
          /\ Len(h.messages) = Max(1, h.count)
          /\ h.count <= 0 => h.messages = << [element |-> 0, count |-> 0] >>

C10_Witness ==
    /\ \E h \in GetResults : h.count < 0
    /\ \E h \in StreamResults : h.count <= 0

====
